---- MODULE Spec2Model ----
(***************************************************************************)
(* Model of src/main/c/hdr_histogram_log.c: the Base64 codec, the          *)
(* compressed histogram encoder/decoder built on a zlib stream, and the    *)
(* histogram log parser.                                                   *)
(*                                                                         *)
(* Representation choices                                                  *)
(*  - a byte is a number in 0..255, a C string a sequence of ASCII codes;  *)
(*  - an int32_t / int64_t object is represented by its digits in base 256 *)
(*    most significant first (4 resp. 8 bytes), so that values of any size *)
(*    stay exact; its image in memory is that sequence on a big-endian     *)
(*    host and its reverse on a little-endian host;                        *)
(*  - htobeNN / beNNtoh are the byte swap on a little-endian host and the  *)
(*    identity on a big-endian host.                                       *)
(***************************************************************************)
EXTENDS Integers, Sequences, FiniteSets, TLC

(***************************************************************************)
(* Bounds of the model.                                                    *)
(***************************************************************************)
\* longest byte sequence handed to base64_encode
MaxBytes == 4
\* longest text handed to base64_decode, in 4-symbol blocks
MaxTextBlocks == 1

(***************************************************************************)
(* State.  Each specification below runs one part of the program: the      *)
(* Base64 codec alone, the encoder followed by the decoder, or the log     *)
(* parser (which calls the Base64 decoder and hdr_decode_compressed).      *)
(***************************************************************************)
\* Base64: the position of the caller, the bytes to encode, the text, the
\* results of the two calls and the decoded bytes
VARIABLES b64_pc, b64_input, b64_text, b64_enc_result, b64_dec_result,
          b64_output

b64vars == <<b64_pc, b64_input, b64_text, b64_enc_result, b64_dec_result,
             b64_output>>

\* hdr_encode_compressed: the host byte order, the snapshot h, the position
\* in the function, its locals, and the caller's two output arguments
VARIABLES hostLE, h_in, enc_pc, buf, len, strm, counts_index, enc_r,
          enc_result, compressed_histogram, compressed_len, enc_grown

encvars == <<hostLE, h_in, enc_pc, buf, len, strm, counts_index, enc_r,
             enc_result, compressed_histogram, compressed_len, enc_grown>>

\* hdr_decode_compressed: the position in the function, its arguments (the
\* slot is *histogram), its locals, and the calls made so far; dec_avail_in
\* is the value line 512 stores in strm.avail_in
VARIABLES dec_pc, dec_caller, dec_buffer, dec_length, dec_slot, dec_slot_before,
          dec_h, dec_result, dec_strm, dec_fw, dec_header_bytes,
          dec_counts_array, dec_counts_index, dec_r, dec_events, dec_avail_in

decvars == <<dec_pc, dec_caller, dec_buffer, dec_length, dec_slot,
             dec_slot_before, dec_h, dec_result, dec_strm, dec_fw,
             dec_header_bytes, dec_counts_array, dec_counts_index, dec_r,
             dec_events, dec_avail_in>>

\* hdr_parse_log: the position, the lines of the FILE and the number of
\* them already read, the _log_header, the value parse_lines returned, the
\* value hdr_parse_log returned, the histograms printed, the error of the
\* first record that failed and the number of lines read after it
VARIABLES log_pc, log_file, log_pos, header, parse_lines_result,
          hdr_parse_log_result, printed, log_first_error, log_after_failure

logvars == <<log_pc, log_file, log_pos, header, parse_lines_result,
             hdr_parse_log_result, printed, log_first_error,
             log_after_failure>>

vars == <<b64vars, encvars, decvars, logvars>>

(***************************************************************************)
(* Generic helpers.                                                        *)
(***************************************************************************)
Min(a, b) == IF a < b THEN a ELSE b

Reverse(s) == [i \in 1..Len(s) |-> s[Len(s) + 1 - i]]

Take(s, n) == SubSeq(s, 1, Min(n, Len(s)))

Drop(s, n) == SubSeq(s, Min(n, Len(s)) + 1, Len(s))

Fill(n, v) == [i \in 1..n |-> v]

\* F applied to the value of v, which is computed once
Bind(v, F(_)) == CHOOSE r \in {F(x) : x \in {v}} : TRUE

SeqsUpTo(S, n) == UNION {[1..k -> S] : k \in 0..n}

\* errno values returned by the C code (errno.h)
EINVAL == 22
ENOMEM == 12

(***************************************************************************)
(* Base64 codec (hdr_histogram_log.c:144-295).                             *)
(***************************************************************************)
\* base64_table: 'A'-'Z', 'a'-'z', '0'-'9', '+', '/'
base64_table ==
    [i \in 1..26 |-> 64 + i] \o [i \in 1..26 |-> 96 + i]
        \o [i \in 1..10 |-> 47 + i] \o <<43, 47>>

\* get_base_64: 0x3F & (value >> shift), looked up in the table
get_base_64(v, shift) == base64_table[((v \div (2 ^ shift)) % 64) + 1]

\* from_base_64 with a wrong offset for the lower-case letters
from_base_64_offset(c) ==
    IF 65 <= c /\ c <= 90 THEN c - 65
    ELSE IF 97 <= c /\ c <= 122 THEN (c - 97) + 25
    ELSE IF 48 <= c /\ c <= 57 THEN (c - 48) + 52
    ELSE IF c = 43 THEN 62
    ELSE IF c = 47 THEN 63
    ELSE IF c = 61 THEN 0
    ELSE EINVAL

\* from_base_64: the value of a symbol; '=' is 0, anything else EINVAL (22)
from_base_64(c) ==
    IF 65 <= c /\ c <= 90 THEN c - 65
    ELSE IF 97 <= c /\ c <= 122 THEN (c - 97) + 26
    ELSE IF 48 <= c /\ c <= 57 THEN (c - 48) + 52
    ELSE IF c = 43 THEN 62
    ELSE IF c = 47 THEN 63
    ELSE IF c = 61 THEN 0
    ELSE EINVAL

\* ceil(decoded_size / 3.0) * 4.0
base64_encoded_len(n) == ((n + 2) \div 3) * 4

\* (encoded_size / 4) * 3
base64_decoded_len(n) == (n \div 4) * 3

\* base64_encode_block_pad: pad is the number of remaining input bytes
base64_encode_block_pad(input, pad) ==
    IF pad = 2 THEN
        LET v == input[1] * 65536 + input[2] * 256
        IN  <<get_base_64(v, 18), get_base_64(v, 12), get_base_64(v, 6), 61>>
    ELSE IF pad = 1 THEN
        LET v == input[1] * 65536
        IN  <<get_base_64(v, 18), get_base_64(v, 12), 61, 61>>
    ELSE <<>>

\* base64_encode_block: 3 input bytes to 4 symbols
base64_encode_block(input) ==
    LET v == input[1] * 65536 + input[2] * 256 + input[3]
    IN  <<get_base_64(v, 18), get_base_64(v, 12),
          get_base_64(v, 6), get_base_64(v, 0)>>

RECURSIVE base64_encode_blocks(_)
base64_encode_blocks(input) ==
    IF Len(input) >= 3
    THEN base64_encode_block(Take(input, 3)) \o base64_encode_blocks(Drop(input, 3))
    ELSE base64_encode_block_pad(input, Len(input))

\* base64_encode: result code and the text written to output
base64_encode(input, output_len) ==
    IF base64_encoded_len(Len(input)) # output_len
    THEN [result |-> EINVAL, output |-> <<>>]
    ELSE [result |-> 0, output |-> base64_encode_blocks(input)]

\* base64_decode_block: 4 symbols to 3 bytes.  Every from_base_64 value is
\* below 64, so the shifted values occupy disjoint bits and |= is a sum.
base64_decode_block(input) ==
    LET v == from_base_64(input[1]) * 262144 + from_base_64(input[2]) * 4096
                + from_base_64(input[3]) * 64 + from_base_64(input[4])
    IN  <<(v \div 65536) % 256, (v \div 256) % 256, v % 256>>

RECURSIVE base64_decode_blocks(_)
base64_decode_blocks(input) ==
    IF Len(input) >= 4
    THEN base64_decode_block(Take(input, 4)) \o base64_decode_blocks(Drop(input, 4))
    ELSE <<>>

\* base64_decode: result code and the bytes written to output
base64_decode(input, output_len) ==
    IF Len(input) < 4 \/ Len(input) % 4 # 0
          \/ (Len(input) \div 4) * 3 # output_len
    THEN [result |-> EINVAL, output |-> <<>>]
    ELSE [result |-> 0, output |-> base64_decode_blocks(input)]

(***************************************************************************)
(* State of the Base64 specification: one call of base64_encode followed   *)
(* by base64_decode of its output, or one call of base64_decode on a text. *)
(***************************************************************************)

\* sample bytes given to the encoder: 0, 'M', 'a', 'n', 255
ByteSample == {0, 77, 97, 110, 255}

\* sample symbols given to the decoder: 'A', 'W', '=', and '!' (not a symbol)
CharSample == {65, 87, 61, 33}

Base64Alphabet == {base64_table[i] : i \in 1..64}

B64Idle ==
    /\ b64_pc = "idle"
    /\ b64_input = <<>>
    /\ b64_text = <<>>
    /\ b64_enc_result = 0
    /\ b64_dec_result = 0
    /\ b64_output = <<>>

B64Init ==
    /\ b64_enc_result = 0
    /\ b64_dec_result = 0
    /\ b64_output = <<>>
    /\ \/ /\ b64_pc = "encode"
          /\ b64_input \in SeqsUpTo(ByteSample, MaxBytes)
          /\ b64_text = <<>>
       \/ /\ b64_pc = "decode"
          /\ b64_input = <<>>
          /\ b64_text \in SeqsUpTo(CharSample, 4 * MaxTextBlocks)

\* the caller sizes the output with base64_encoded_len and encodes
B64Encode ==
    /\ b64_pc = "encode"
    /\ LET r == base64_encode(b64_input, base64_encoded_len(Len(b64_input)))
       IN  /\ b64_enc_result' = r.result
           /\ b64_text' = r.output
    /\ b64_pc' = "encoded"
    /\ UNCHANGED <<b64_input, b64_dec_result, b64_output>>
    /\ UNCHANGED <<encvars, decvars, logvars>>

\* the caller sizes the output with base64_decoded_len and decodes
B64Decode ==
    /\ b64_pc \in {"encoded", "decode"}
    /\ LET r == base64_decode(b64_text, base64_decoded_len(Len(b64_text)))
       IN  /\ b64_dec_result' = r.result
           /\ b64_output' = r.output
    /\ b64_pc' = IF b64_pc = "encoded" THEN "roundtrip" ELSE "decoded"
    /\ UNCHANGED <<b64_input, b64_text, b64_enc_result>>
    /\ UNCHANGED <<encvars, decvars, logvars>>



(***************************************************************************)
(* Integers in memory and byte order (hdr_histogram_log.c:22-49).          *)
(***************************************************************************)
RECURSIVE Digits(_, _)
\* the w base-256 digits of the non-negative number v, most significant first
Digits(v, w) == IF w = 0 THEN <<>> ELSE Digits(v \div 256, w - 1) \o <<v % 256>>

\* the value of an int32_t given by its digits (two's complement)
SignedValue32(d) ==
    (IF d[1] >= 128 THEN d[1] - 256 ELSE d[1]) * 16777216
        + d[2] * 65536 + d[3] * 256 + d[4]

\* the image in memory of an integer object on this host
Store(d, le) == IF le THEN Reverse(d) ELSE d

\* the integer object found in memory on this host
Load(img, le) == IF le THEN Reverse(img) ELSE img

\* htobe32 / htobe64: the byte swap on a little-endian host
htobe(d, le) == IF le THEN Reverse(d) ELSE d

\* be32toh / be64toh
betoh(d, le) == IF le THEN Reverse(d) ELSE d

\* int to size_t: a negative int becomes a size beyond any buffer, which the
\* model represents by the largest number it has
HugeSize == (2 ^ 30 - 1) * 2 + 1
ToSizeT(v) == IF v < 0 THEN HugeSize ELSE v

\* ENCODING_COOKIE = 0x1c849308 + (8 << 4) = 0x1c849388
ENCODING_COOKIE == <<28, 132, 147, 136>>
\* COMPRESSION_COOKIE = 0x1c849309 + (8 << 4) = 0x1c849389
COMPRESSION_COOKIE == <<28, 132, 147, 137>>

HDR_COMPRESSION_COOKIE_MISMATCH == -29999
HDR_ENCODING_COOKIE_MISMATCH == -29998
HDR_DEFLATE_INIT_FAIL == -29997
HDR_DEFLATE_FAIL == -29996
HDR_INFLATE_INIT_FAIL == -29995
HDR_INFLATE_FAIL == -29994
HDR_DEFLATE_NEED_REALLOC == -29993

\* sizeof(_compression_flyweight): cookie and length, packed
SizeofCompressionFlyweight == 4 + 4
\* sizeof(_encoding_flyweight): cookie, significant figures, three int64_t
SizeofEncodingFlyweight == 4 + 4 + 8 + 8 + 8

\* a byte of memory that has not been written
Uninit == -1

(***************************************************************************)
(* The zlib stream (zlib.h), as far as the codec depends on it.  The       *)
(* compressed format of the model is a two-byte header (120, 94), then     *)
(* run-length pairs <<n, v>> (n in 1..255 copies of byte v), the marker    *)
(* <<0, 0>> left by a sync flush, the marker <<0, 1>> ending the data, and *)
(* a one-byte checksum.  Like deflate, the compressor holds input back     *)
(* (the current run) until a flush, returns as soon as the output space is *)
(* used up, and refuses any flush other than Z_FINISH once Z_FINISH has    *)
(* been started.                                                           *)
(***************************************************************************)
\* RANK(f) of deflate: orders the flush values; -1 (no flush yet) is lowest
Rank(f) ==
    CASE f = "Z_NO_FLUSH" -> 0
      [] f = "Z_SYNC_FLUSH" -> 4
      [] f = "Z_FINISH" -> 8
      [] OTHER -> -2

\* deflateInit / strm_init: a fresh compression stream
NewDeflateStream ==
    [status |-> "INIT", pending |-> <<>>, run |-> 0, val |-> 0,
     last_flush |-> "none", sum |-> 0, trailer |-> FALSE,
     next_in |-> <<>>, next_out |-> 0, avail_out |-> 0, total_out |-> 0]

\* flush_pending: copy as much pending output as fits to next_out
FlushPending(st, mem) ==
    LET n == Min(Len(st.pending), st.avail_out)
    IN  [strm |-> [st EXCEPT !.pending = Drop(st.pending, n),
                             !.next_out = st.next_out + n,
                             !.avail_out = st.avail_out - n,
                             !.total_out = st.total_out + n],
         buf |-> [i \in 1..Len(mem) |->
                    IF st.next_out < i /\ i <= st.next_out + n
                    THEN st.pending[i - st.next_out] ELSE mem[i]]]

\* the number of leading bytes of s equal to v
LeadingCount(s, v) ==
    LET other == {i \in 1..Len(s) : s[i] # v}
    IN  IF other = {} THEN Len(s)
        ELSE (CHOOSE i \in other : \A j \in other : i <= j) - 1

\* one turn of the loop of the block function: the input is consumed up to
\* the end of a run, and the run is emitted as a pair when more input follows
\* it; c.full (need_more) is set as soon as the output space is used up
DeflateRun(c) ==
    IF c.full \/ c.strm.next_in = <<>> THEN c
    ELSE
      LET st == c.strm
          v == IF st.run = 0 THEN Head(st.next_in) ELSE st.val
          n == Min(LeadingCount(st.next_in, v), 255 - st.run)
          eaten == [st EXCEPT !.next_in = Drop(st.next_in, n),
                              !.sum = (st.sum + n * v) % 251,
                              !.run = st.run + n,
                              !.val = v]
          emit(e) == FlushPending(
                        [e EXCEPT !.pending = e.pending \o <<e.run, e.val>>,
                                  !.run = 0], c.buf)
          next(f) == [strm |-> f.strm, buf |-> f.buf,
                      full |-> f.strm.avail_out = 0]
          step(e) == IF e.next_in = <<>>
                     THEN [strm |-> e, buf |-> c.buf, full |-> FALSE]
                     ELSE Bind(emit(e), next)
      IN  Bind(eaten, step)

RECURSIVE DeflateRuns(_, _)
\* n turns of the loop of the block function
DeflateRuns(c, n) ==
    IF n = 0 THEN c
    ELSE IF n = 1 THEN DeflateRun(c)
    ELSE LET rest(x) == DeflateRuns(x, n - n \div 2)
         IN  Bind(DeflateRuns(c, n \div 2), rest)

\* the block function: every turn consumes input, so Len(next_in) turns
\* run the loop to its end
DeflateInput(st, mem) ==
    DeflateRuns([strm |-> st, buf |-> mem, full |-> FALSE], Len(st.next_in))

\* the end of the block function for a flush: the held run is emitted
DeflateEmitRun(st, mem) ==
    IF st.run = 0 THEN [strm |-> st, buf |-> mem]
    ELSE FlushPending([st EXCEPT !.pending = st.pending \o <<st.run, st.val>>,
                                 !.run = 0], mem)

DeflateReturn(st, mem, ret) == [strm |-> st, buf |-> mem, ret |-> ret]

\* the trailer is written once, after the last block
DeflateTrailer(st, mem) ==
    IF st.trailer THEN DeflateReturn(st, mem, "Z_STREAM_END")
    ELSE
      LET done(f) ==
            DeflateReturn(f.strm, f.buf,
                          IF f.strm.pending # <<>> THEN "Z_OK" ELSE "Z_STREAM_END")
      IN  Bind(FlushPending([st EXCEPT !.pending = st.pending \o <<st.sum>>,
                                       !.trailer = TRUE], mem), done)

\* deflate() forgets the flush it is serving when it returns without room
NoRoom(s) ==
    [s EXCEPT !.last_flush = IF s.avail_out = 0 THEN "none" ELSE s.last_flush]

\* Z_FINISH after the block function: the end marker, then the trailer
DeflateFinish(e) ==
    LET done(f) == IF f.strm.avail_out = 0
                   THEN \* finish_started
                        DeflateReturn(NoRoom(f.strm), f.buf, "Z_OK")
                   ELSE DeflateTrailer(f.strm, f.buf)
    IN  Bind(FlushPending([e.strm EXCEPT !.pending = e.strm.pending \o <<0, 1>>,
                                         !.status = "FINISH"], e.buf), done)

\* Z_SYNC_FLUSH after the block function; held tells whether a run was held
DeflateSync(e, held) ==
    IF e.strm.run = 0 /\ held /\ e.strm.avail_out = 0
    THEN \* need_more while flushing the block
         DeflateReturn(NoRoom(e.strm), e.buf, "Z_OK")
    ELSE \* block_done: the sync marker
         LET done(f) == DeflateReturn(NoRoom(f.strm), f.buf, "Z_OK")
         IN  Bind(FlushPending([e.strm EXCEPT !.pending =
                                   e.strm.pending \o <<0, 0>>], e.buf), done)

\* the part of deflate() after the pending output has been flushed
DeflateBlock(st, mem, flush) ==
    IF st.next_in # <<>> \/ (flush # "Z_NO_FLUSH" /\ st.status # "FINISH")
    THEN
      LET after(c) ==
            IF c.full \/ flush = "Z_NO_FLUSH"
            THEN \* need_more
                 DeflateReturn(NoRoom(c.strm), c.buf, "Z_OK")
            ELSE IF flush = "Z_FINISH"
            THEN Bind(DeflateEmitRun(c.strm, c.buf), DeflateFinish)
            ELSE LET sync(e) == DeflateSync(e, c.strm.run # 0)
                 IN  Bind(DeflateEmitRun(c.strm, c.buf), sync)
      IN  Bind(DeflateInput(st, mem), after)
    ELSE IF flush # "Z_FINISH" THEN DeflateReturn(st, mem, "Z_OK")
    ELSE DeflateTrailer(st, mem)

\* the start of deflate(): the stream header is written by the first call
DeflateHeader(f1, flush) ==
    IF f1.strm.status = "INIT"
    THEN LET after(h) ==
               IF h.strm.pending # <<>>
               THEN DeflateReturn([h.strm EXCEPT !.last_flush = "none"],
                                  h.buf, "Z_OK")
               ELSE DeflateBlock(h.strm, h.buf, flush)
         IN  Bind(FlushPending([f1.strm EXCEPT !.pending = <<120, 94>>,
                                               !.status = "BUSY"], f1.buf),
                  after)
    ELSE DeflateBlock(f1.strm, f1.buf, flush)

\* deflate(strm, flush)
Deflate(st, mem, flush) ==
    IF st.status = "NONE" \/ (st.status = "FINISH" /\ flush # "Z_FINISH")
    THEN DeflateReturn(st, mem, "Z_STREAM_ERROR")
    ELSE IF st.avail_out = 0
    THEN DeflateReturn(st, mem, "Z_BUF_ERROR")
    ELSE
      LET old_flush == st.last_flush
          after(f) ==
            IF st.pending # <<>> /\ f.strm.avail_out = 0
            THEN DeflateReturn([f.strm EXCEPT !.last_flush = "none"],
                               f.buf, "Z_OK")
            ELSE IF st.pending = <<>> /\ st.next_in = <<>>
                      /\ Rank(flush) <= Rank(old_flush) /\ flush # "Z_FINISH"
            THEN DeflateReturn([st EXCEPT !.last_flush = flush], mem,
                               "Z_BUF_ERROR")
            ELSE IF st.status = "FINISH" /\ st.next_in # <<>>
            THEN DeflateReturn([st EXCEPT !.last_flush = flush], mem,
                               "Z_BUF_ERROR")
            ELSE DeflateHeader(f, flush)
      IN  Bind(FlushPending([st EXCEPT !.last_flush = flush], mem), after)

\* the whole of a byte sequence compressed in one call with enough room
ZCompress(data) ==
    LET room == 2 * Len(data) + 8
        used(r) == Take(r.buf, r.strm.total_out)
    IN  Bind(Deflate([NewDeflateStream EXCEPT !.next_in = data,
                                              !.avail_out = room],
                     Fill(room, Uninit), "Z_FINISH"), used)

\* a fresh decompression stream (inflateInit)
NewInflateStream ==
    [mode |-> "HEAD1", len |-> 0, val |-> 0, sum |-> 0, next_in |-> <<>>]

\* one turn of the state machine of inflate(): c.strm is the stream, c.out
\* what has been written so far and c.room the output space left.  Input
\* that needs no output space is still processed when the output is full; a
\* turn that can do nothing leaves c as it is.
InflateStep(c) ==
    LET st == c.strm
        more == st.next_in # <<>>
        b == Head(st.next_in)
        eat(s) == [s EXCEPT !.next_in = Tail(st.next_in)]
        go(s) == [c EXCEPT !.strm = s]
        \* copy as much of the run <<n, v>> as fits, s being the stream
        \* after the pair has been read
        run(s, n, v) ==
            LET k == Min(n, c.room)
            IN  [strm |-> [s EXCEPT !.len = n - k, !.val = v,
                                    !.sum = (s.sum + k * v) % 251,
                                    !.mode = IF n = k THEN "LEN" ELSE "RUN"],
                 out |-> c.out \o Fill(k, v),
                 room |-> c.room - k]
    IN  CASE st.mode = "HEAD1" /\ more ->
               go(eat([st EXCEPT !.mode = IF b = 120 THEN "HEAD2" ELSE "BAD"]))
          [] st.mode = "HEAD2" /\ more ->
               go(eat([st EXCEPT !.mode = IF b = 94 THEN "LEN" ELSE "BAD"]))
          [] st.mode = "LEN" /\ more ->
               IF b \notin 0..255
               THEN go(eat([st EXCEPT !.mode = "BAD"]))
               ELSE IF b = 0
               THEN go(eat([st EXCEPT !.len = 0, !.mode = "MARK"]))
               ELSE IF Len(st.next_in) >= 2 /\ st.next_in[2] \in 0..255
               THEN run([st EXCEPT !.next_in = Drop(st.next_in, 2)],
                        b, st.next_in[2])
               ELSE go(eat([st EXCEPT !.len = b, !.mode = "VAL"]))
          [] st.mode = "MARK" /\ more ->
               go(eat([st EXCEPT !.mode =
                          IF b = 0 THEN "LEN"
                          ELSE IF b = 1 THEN "CHECK" ELSE "BAD"]))
          [] st.mode = "VAL" /\ more ->
               IF b \notin 0..255
               THEN go(eat([st EXCEPT !.mode = "BAD"]))
               ELSE run(eat(st), st.len, b)
          [] st.mode = "RUN" -> run(st, st.len, st.val)
          [] st.mode = "CHECK" /\ more ->
               go(eat([st EXCEPT !.mode = IF b = st.sum THEN "DONE" ELSE "BAD"]))
          [] OTHER -> c

RECURSIVE InflateSteps(_, _)
\* n turns of the state machine
InflateSteps(c, n) ==
    IF n = 0 THEN c
    ELSE IF n = 1 THEN InflateStep(c)
    ELSE LET rest(x) == InflateSteps(x, n - n \div 2)
         IN  Bind(InflateSteps(c, n \div 2), rest)

\* the state machine run until it can do nothing more: a pending run takes
\* one turn and every other turn consumes input
InflateLoop(st, room) ==
    InflateSteps([strm |-> st, out |-> <<>>, room |-> room], Len(st.next_in) + 1)

\* inflate(strm, Z_SYNC_FLUSH) with avail_out bytes of output space: the new
\* stream, the bytes written and the return code
Inflate(st, avail_out) ==
    LET code(r) ==
          [strm |-> r.strm, out |-> r.out,
           ret |-> IF r.strm.mode = "BAD" THEN "Z_DATA_ERROR"
                   ELSE IF r.strm.mode = "DONE" THEN "Z_STREAM_END"
                   ELSE IF Len(r.strm.next_in) = Len(st.next_in) /\ r.out = <<>>
                   THEN "Z_BUF_ERROR"
                   ELSE "Z_OK"]
    IN  Bind(InflateLoop(st, avail_out), code)


(***************************************************************************)
(* The histogram collaborator (hdr_histogram.c).  A histogram holds its    *)
(* integers as base-256 digits.  The number of buckets follows from the    *)
(* range and the precision alone; the model takes the simplest such law.   *)
(***************************************************************************)
\* most buckets of a histogram snapshot given to the encoder
MaxCountsLen == 8

\* a digit sequence that denotes a number below 256, and that number
IsSmall(d) == \A i \in 1..(Len(d) - 1) : d[i] = 0
SmallValue(d) == d[Len(d)]

\* whether hdr_init accepts the configuration
HdrInitAccepts(lowest, highest, significant_figures) ==
    /\ IsSmall(lowest) /\ IsSmall(highest) /\ IsSmall(significant_figures)
    /\ SmallValue(lowest) >= 1
    /\ SmallValue(highest) >= SmallValue(lowest)
    /\ SmallValue(significant_figures) \in 1..5

\* counts_len for a configuration hdr_init accepts
CountsLenFor(lowest, highest, significant_figures) == SmallValue(highest)

\* hdr_init: a zeroed histogram for the configuration
hdr_init(lowest, highest, significant_figures) ==
    [lowest_trackable_value |-> lowest,
     highest_trackable_value |-> highest,
     significant_figures |-> significant_figures,
     total_count |-> Digits(0, 8),
     counts_len |-> CountsLenFor(lowest, highest, significant_figures),
     counts |-> Fill(CountsLenFor(lowest, highest, significant_figures),
                     Digits(0, 8))]

\* the histogram slot of a caller: NULL, or holding a histogram
NullHistogram == hdr_init(Digits(1, 8), Digits(1, 8), Digits(1, 4))
NullSlot == [set |-> FALSE, hist |-> NullHistogram]

\* non-zero counts recorded in the sample snapshots
NonzeroSample == {1, 258}
\* precisions of the sample snapshots
SigSample == {3}

RECURSIVE SumSeq(_)
SumSeq(s) == IF s = <<>> THEN 0 ELSE Head(s) + SumSeq(Tail(s))

\* a snapshot with the given counts, as a caller of the encoder builds it
Snapshot(sig, counts) ==
    [hdr_init(Digits(1, 8), Digits(Len(counts), 8), Digits(sig, 4))
        EXCEPT !.total_count = Digits(SumSeq(counts), 8),
               !.counts = [i \in 1..Len(counts) |-> Digits(counts[i], 8)]]

\* the counts of the sample snapshots with n buckets: all zero, one bucket
\* non-zero, all buckets non-zero
CountPatterns(n) ==
    {Fill(n, 0)}
        \cup {[i \in 1..n |-> IF i = k THEN v ELSE 0] : k \in 1..n, v \in NonzeroSample}
        \cup {Fill(n, v) : v \in NonzeroSample}

Snapshots ==
    {Snapshot(sig, c) : sig \in SigSample,
                        c \in UNION {CountPatterns(n) : n \in 1..MaxCountsLen}}

(***************************************************************************)
(* hdr_encode_compressed (hdr_histogram_log.c:370-476).                    *)
(***************************************************************************)
\* initial capacity of the output buffer: "int len = 4096", scaled down so
\* that small snapshots exhaust it
InitialLen == 40
\* counts per input chunk: "counts_per_chunk = 512", scaled down likewise
counts_per_chunk == 2


EncIdle ==
    /\ enc_pc = "idle"
    /\ h_in = NullHistogram
    /\ buf = <<>>
    /\ len = 0
    /\ strm = NewDeflateStream
    /\ counts_index = 0
    /\ enc_r = "Z_OK"
    /\ enc_result = 0
    /\ compressed_histogram = <<>>
    /\ compressed_len = 0
    /\ enc_grown = 0

EncInit ==
    /\ enc_pc = "start"
    /\ h_in \in Snapshots
    /\ buf = <<>>
    /\ len = 0
    /\ strm = NewDeflateStream
    /\ counts_index = 0
    /\ enc_r = "Z_OK"
    /\ enc_result = 0
    /\ compressed_histogram = <<>>
    /\ compressed_len = 0
    /\ enc_grown = 0

\* the image of the _encoding_flyweight the encoder fills in (lines 401-405)
EncodingFlyweightImage(h, le) ==
    Store(htobe(ENCODING_COOKIE, le), le)
        \o Store(htobe(h.significant_figures, le), le)
        \o Store(htobe(h.lowest_trackable_value, le), le)
        \o Store(htobe(h.highest_trackable_value, le), le)
        \o Store(htobe(h.total_count, le), le)

RECURSIVE Flatten(_)
Flatten(ss) == IF ss = <<>> THEN <<>> ELSE Head(ss) \o Flatten(Tail(ss))

\* the image of chunk[0..i-1] after the copy loop of lines 444-448
ChunkImage(h, from, i, le) ==
    Flatten([k \in 1..i |-> Store(htobe(h.counts[from + k], le), le)])

\* cleanup of a failed call (lines 468-475): the stream is ended, the buffer
\* freed, and the caller's outputs are left alone
EncFail(error) ==
    /\ enc_result' = error
    /\ enc_pc' = "done"
    /\ buf' = <<>>
    /\ strm' = [strm EXCEPT !.status = "NONE"]
    /\ UNCHANGED <<compressed_histogram, compressed_len>>

\* lines 375-418: allocate, deflateInit, build the header, first deflate
EncBegin ==
    /\ enc_pc = "start"
    /\ \E mallocOk, deflateInitOk \in BOOLEAN :
         IF ~mallocOk
         THEN /\ EncFail(ENOMEM)
              /\ UNCHANGED <<len, enc_r>>
         ELSE IF ~deflateInitOk
         THEN /\ EncFail(HDR_DEFLATE_INIT_FAIL)
              /\ len' = InitialLen
              /\ UNCHANGED enc_r
         ELSE
           \E d \in {Deflate([NewDeflateStream EXCEPT
                        !.next_in = EncodingFlyweightImage(h_in, hostLE),
                        !.next_out = SizeofCompressionFlyweight,
                        !.avail_out = InitialLen - SizeofCompressionFlyweight],
                      Fill(InitialLen, Uninit), "Z_NO_FLUSH")} :
               /\ len' = InitialLen
               /\ enc_r' = d.ret
               /\ IF d.ret # "Z_OK"
                  THEN EncFail(HDR_DEFLATE_FAIL)
                  ELSE /\ buf' = d.buf
                       /\ strm' = d.strm
                       /\ enc_pc' = "loop"
                       /\ UNCHANGED <<enc_result, compressed_histogram,
                                      compressed_len>>
    /\ UNCHANGED <<hostLE, h_in, counts_index, enc_grown>>
    /\ UNCHANGED <<b64vars, decvars, logvars>>

\* lines 432-435: the stream resumes at the old capacity in the new buffer
GrowResume(st, capacity) ==
    [st EXCEPT !.next_out = capacity, !.avail_out = capacity]

\* lines 422-442: one turn of the loop that doubles the buffer
EncGrow ==
    /\ enc_pc = "loop"
    /\ strm.avail_out = 0
    /\ \E reallocOk \in BOOLEAN :
         IF ~reallocOk
         THEN /\ EncFail(ENOMEM)
              /\ UNCHANGED <<len, enc_r, enc_grown>>
         ELSE
           \E d \in {Deflate(GrowResume(strm, len),
                               buf \o Fill(len, Uninit), "Z_SYNC_FLUSH")} :
               /\ len' = len * 2
               /\ enc_grown' = enc_grown + 1
               /\ enc_r' = d.ret
               /\ IF d.ret # "Z_OK"
                  THEN EncFail(HDR_DEFLATE_FAIL)
                  ELSE /\ buf' = d.buf
                       /\ strm' = d.strm
                       /\ UNCHANGED <<enc_pc, enc_result, compressed_histogram,
                                      compressed_len>>
    /\ UNCHANGED <<hostLE, h_in, counts_index>>
    /\ UNCHANGED <<b64vars, decvars, logvars>>

\* lines 444-460: feed the next chunk of counts, or finish with an empty one
EncChunk ==
    /\ enc_pc = "loop"
    /\ strm.avail_out # 0
    /\ \E i \in {Min(counts_per_chunk, h_in.counts_len - counts_index)} :
       \E d \in {Deflate([strm EXCEPT !.next_in =
                              ChunkImage(h_in, counts_index, i, hostLE)],
                          buf, IF i = 0 THEN "Z_FINISH" ELSE "Z_NO_FLUSH")} :
           /\ counts_index' = counts_index + i
           /\ enc_r' = d.ret
           /\ IF d.ret # "Z_OK" /\ d.ret # "Z_STREAM_END"
              THEN EncFail(HDR_DEFLATE_FAIL)
              ELSE /\ buf' = d.buf
                   /\ strm' = d.strm
                   /\ enc_pc' = IF d.ret = "Z_STREAM_END" THEN "finish" ELSE "loop"
                   /\ UNCHANGED <<enc_result, compressed_histogram,
                                  compressed_len>>
    /\ UNCHANGED <<hostLE, h_in, len, enc_grown>>
    /\ UNCHANGED <<b64vars, decvars, logvars>>

\* line 466: sizeof(_compression_flyweight) + comp_fw->length, the field
\* being read back as it was stored
UsedLength(lengthImage, le) ==
    SizeofCompressionFlyweight + SignedValue32(Load(lengthImage, le))

\* lines 462-476: write the envelope header and hand the buffer over
EncFinish ==
    /\ enc_pc = "finish"
    /\ LET cookie == Store(htobe(COMPRESSION_COOKIE, hostLE), hostLE)
           length == Store(htobe(Digits(strm.total_out, 4), hostLE), hostLE)
           out == cookie \o length \o Drop(buf, SizeofCompressionFlyweight)
       IN  /\ buf' = out
           /\ compressed_histogram' = out
           /\ compressed_len' = UsedLength(length, hostLE)
    /\ strm' = [strm EXCEPT !.status = "NONE"]
    /\ enc_pc' = "done"
    /\ UNCHANGED <<hostLE, h_in, len, counts_index, enc_r, enc_result, enc_grown>>
    /\ UNCHANGED <<b64vars, decvars, logvars>>


(***************************************************************************)
(* hdr_decode_compressed (hdr_histogram_log.c:478-578).                    *)
(***************************************************************************)
\* bytes found in uninitialised stack storage
GarbageSample == {0, 170}

\* number of bytes behind the caller's buffer that the model follows
MaxBeyond == 2


\* the local "struct hdr_histogram* h" before anything is assigned to it:
\* an indeterminate pointer, which may or may not happen to be NULL
UninitH(wild) == [state |-> "uninit", wild |-> wild, hist |-> NullHistogram]

DecIdle ==
    /\ dec_pc = "idle"
    /\ dec_caller = "none"
    /\ dec_buffer = <<>>
    /\ dec_length = 0
    /\ dec_slot = NullSlot
    /\ dec_slot_before = NullSlot
    /\ dec_h = UninitH(FALSE)
    /\ dec_result = 0
    /\ dec_strm = [NewInflateStream EXCEPT !.mode = "NONE"]
    /\ dec_fw = <<>>
    /\ dec_header_bytes = 0
    /\ dec_counts_array = <<>>
    /\ dec_counts_index = 0
    /\ dec_r = "Z_OK"
    /\ dec_events = <<>>
    /\ dec_avail_in = 0

\* a call of hdr_decode_compressed(buffer, length, &slot) by caller
DecCall(caller, buffer, length, slot) ==
    /\ dec_pc' = "begin"
    /\ dec_caller' = caller
    /\ dec_buffer' = buffer
    /\ dec_length' = length
    /\ dec_slot' = slot
    /\ dec_slot_before' = slot
    /\ dec_h' = UninitH(FALSE)
    /\ dec_result' = 0
    /\ dec_strm' = [NewInflateStream EXCEPT !.mode = "NONE"]
    /\ dec_fw' = <<>>
    /\ dec_header_bytes' = 0
    /\ dec_counts_array' = <<>>
    /\ dec_counts_index' = 0
    /\ dec_r' = "Z_OK"
    /\ dec_events' = <<>>
    /\ dec_avail_in' = 0

\* FAIL_AND_CLEANUP(cleanup, result, error)
DecFail(error) ==
    /\ dec_result' = error
    /\ dec_pc' = "cleanup"

\* lines 481-502: the frame is set up, the arguments and the envelope cookie
\* are checked
DecBegin ==
    /\ dec_pc = "begin"
    /\ \E wild \in BOOLEAN, g \in GarbageSample :
         /\ dec_h' = UninitH(wild)
         /\ dec_fw' = Fill(SizeofEncodingFlyweight, g)
         /\ dec_counts_array' = Fill(counts_per_chunk * 8, g)
    /\ IF dec_length < SizeofCompressionFlyweight \/ dec_slot.set
       THEN DecFail(EINVAL)
       ELSE IF COMPRESSION_COOKIE # betoh(Load(SubSeq(dec_buffer, 1, 4), hostLE), hostLE)
       THEN DecFail(HDR_COMPRESSION_COOKIE_MISMATCH)
       ELSE /\ dec_pc' = "inflate_init"
            /\ UNCHANGED dec_result
    /\ UNCHANGED <<dec_caller, dec_buffer, dec_length, dec_slot, dec_slot_before,
                   dec_strm, dec_header_bytes, dec_counts_index, dec_r,
                   dec_events,
                   dec_avail_in>>
    /\ UNCHANGED <<b64vars, encvars, logvars>>

\* lines 504-509: the length field is read and the decompressor initialised
DecInflateInit ==
    /\ dec_pc = "inflate_init"
    /\ dec_events' = Append(dec_events, "inflateInit")
    /\ \E inflateInitOk \in BOOLEAN :
         IF ~inflateInitOk
         THEN /\ DecFail(HDR_INFLATE_FAIL)
              /\ UNCHANGED dec_strm
         ELSE /\ dec_strm' = NewInflateStream
              /\ dec_pc' = "header"
              /\ UNCHANGED dec_result
    /\ UNCHANGED <<dec_caller, dec_buffer, dec_length, dec_slot, dec_slot_before,
                   dec_h, dec_fw, dec_header_bytes, dec_counts_array,
                   dec_counts_index, dec_r,
                   dec_avail_in>>
    /\ UNCHANGED <<b64vars, encvars, logvars>>

\* line 504 and 512: avail_in is the envelope's length field
CompressedLength(buffer, le) ==
    SignedValue32(betoh(Load(SubSeq(buffer, 5, 8), le), le))

\* the bytes written over the start of a piece of memory
Overlay(written, memory) == written \o Drop(memory, Len(written))

\* line 521: the cookie of the decompressed header
HeaderCookie(fw, le) == betoh(Load(SubSeq(fw, 1, 4), le), le)

\* the header step without the test of the cookie
HeaderResultUnchecked(ret, cookie) ==
    IF ret # "Z_OK" THEN HDR_INFLATE_FAIL ELSE 0

\* lines 516-524: the outcome of the header step, 0 to go on
HeaderResult(ret, cookie) ==
    IF ret # "Z_OK" THEN HDR_INFLATE_FAIL
    ELSE IF ENCODING_COOKIE # cookie THEN HDR_ENCODING_COOKIE_MISMATCH
    ELSE 0

\* the bytes inflate can reach from next_in: the caller's bytes after the
\* envelope header and then, up to avail_in, whatever lies behind the buffer
InflateInput(buffer, avail_in, beyond) ==
    Take(Drop(buffer, SizeofCompressionFlyweight) \o beyond, avail_in)

\* lines 511-524: the header is decompressed and its cookie checked; the
\* memory behind the buffer is not the caller's and holds any bytes
DecHeader ==
    /\ dec_pc = "header"
    /\ \E avail_in \in {ToSizeT(CompressedLength(dec_buffer, hostLE))} :
       \E g \in GarbageSample :
       \E i \in {Inflate([dec_strm EXCEPT !.next_in =
                              InflateInput(dec_buffer, avail_in,
                                           Fill(MaxBeyond, g))],
                          SizeofEncodingFlyweight)} :
       \E result \in {HeaderResult(i.ret,
                                   HeaderCookie(Overlay(i.out, dec_fw), hostLE))} :
           /\ dec_strm' = i.strm
           /\ dec_r' = i.ret
           /\ dec_fw' = Overlay(i.out, dec_fw)
           /\ dec_header_bytes' = Len(i.out)
           /\ dec_events' = Append(dec_events, "inflate")
           /\ dec_avail_in' = avail_in
           /\ IF result # 0
              THEN DecFail(result)
              ELSE /\ dec_pc' = "construct"
                   /\ UNCHANGED dec_result
    /\ UNCHANGED <<dec_caller, dec_buffer, dec_length, dec_slot, dec_slot_before,
                   dec_h, dec_counts_array, dec_counts_index>>
    /\ UNCHANGED <<b64vars, encvars, logvars>>

\* lines 526-539: the histogram is constructed from the header fields
DecConstruct ==
    /\ dec_pc = "construct"
    /\ LET significant_figures == betoh(Load(SubSeq(dec_fw, 5, 8), hostLE), hostLE)
           lowest == betoh(Load(SubSeq(dec_fw, 9, 16), hostLE), hostLE)
           highest == betoh(Load(SubSeq(dec_fw, 17, 24), hostLE), hostLE)
           total_count == betoh(Load(SubSeq(dec_fw, 25, 32), hostLE), hostLE)
       IN  \E allocOk \in BOOLEAN :
             IF allocOk /\ HdrInitAccepts(lowest, highest, significant_figures)
             THEN /\ dec_h' = [state |-> "constructed", wild |-> FALSE,
                               hist |-> [hdr_init(lowest, highest, significant_figures)
                                           EXCEPT !.total_count = total_count]]
                  /\ dec_pc' = "chunks"
                  /\ UNCHANGED dec_result
             ELSE /\ DecFail(ENOMEM)
                  /\ UNCHANGED dec_h
    /\ dec_events' = Append(dec_events, "hdr_init")
    /\ UNCHANGED <<dec_caller, dec_buffer, dec_length, dec_slot, dec_slot_before,
                   dec_strm, dec_fw, dec_header_bytes, dec_counts_array,
                   dec_counts_index, dec_r,
                   dec_avail_in>>
    /\ UNCHANGED <<b64vars, encvars, logvars>>

\* lines 557-561: counts_array[0..available-1] go to counts[from..], never
\* beyond counts_len
CopyCounts(hist, from, array, available, le) ==
    [hist EXCEPT !.counts =
        [k \in 1..hist.counts_len |->
            IF from < k /\ k <= from + available
            THEN betoh(Load(SubSeq(array, 8 * (k - from) - 7, 8 * (k - from)), le), le)
            ELSE hist.counts[k]]]

\* lines 544-563: one turn of the loop that decompresses the counts
DecChunk ==
    /\ dec_pc = "chunks"
    /\ \E i \in {Inflate(dec_strm, counts_per_chunk * 8)} :
       \E array \in {Overlay(i.out, dec_counts_array)} :
       \E available_counts \in
              {counts_per_chunk - ((counts_per_chunk * 8 - Len(i.out)) \div 8)} :
           /\ dec_strm' = i.strm
           /\ dec_r' = i.ret
           /\ dec_counts_array' = array
           /\ dec_events' = Append(dec_events, "inflate")
           /\ IF i.ret # "Z_STREAM_END" /\ i.ret # "Z_OK"
              THEN /\ DecFail(HDR_INFLATE_FAIL)
                   /\ UNCHANGED <<dec_h, dec_counts_index>>
              ELSE /\ dec_h' = [dec_h EXCEPT !.hist =
                                   CopyCounts(dec_h.hist, dec_counts_index, array,
                                              available_counts, hostLE)]
                   /\ dec_counts_index' =
                         Min(dec_counts_index + available_counts,
                             dec_h.hist.counts_len)
                   /\ dec_pc' = IF i.ret = "Z_OK" THEN "chunks" ELSE "cleanup"
                   /\ UNCHANGED dec_result
    /\ UNCHANGED <<dec_caller, dec_buffer, dec_length, dec_slot, dec_slot_before,
                   dec_fw, dec_header_bytes,
                   dec_avail_in>>
    /\ UNCHANGED <<b64vars, encvars, logvars>>

\* what free(h) does to the local h
FreeEvent(h) ==
    IF h.state = "constructed" THEN "free_constructed"
    ELSE IF h.wild THEN "free_indeterminate"
    ELSE "free_null"

\* lines 568-575: the slot receives h on success only
CleanupSlot(result, slot, h) ==
    IF result # 0 THEN slot ELSE [set |-> TRUE, hist |-> h.hist]

\* lines 565-577: the stream is ended; h is freed on failure and stored in
\* the caller's slot on success
DecCleanup ==
    /\ dec_pc = "cleanup"
    /\ dec_strm' = [dec_strm EXCEPT !.mode = "NONE"]
    /\ dec_events' = dec_events \o <<"inflateEnd">>
                        \o (IF dec_result # 0 THEN <<FreeEvent(dec_h)>> ELSE <<>>)
    /\ dec_slot' = CleanupSlot(dec_result, dec_slot, dec_h)
    /\ dec_pc' = "done"
    /\ UNCHANGED <<dec_caller, dec_buffer, dec_length, dec_slot_before, dec_h,
                   dec_result, dec_fw, dec_header_bytes, dec_counts_array,
                   dec_counts_index, dec_r,
                   dec_avail_in>>
    /\ UNCHANGED <<b64vars, encvars, logvars>>

(***************************************************************************)
(* A caller that encodes a snapshot and decodes the result, or decodes a   *)
(* damaged copy of it.                                                     *)
(***************************************************************************)
\* longest prefix of the compressed data kept by a truncation
MaxTrunc == 30

\* the envelope for compressed data, as it is laid out on the wire
Envelope(data) == COMPRESSION_COOKIE \o Digits(Len(data), 4) \o data

\* the payload of a snapshot: header and counts, big-endian
Payload(h, cookie) ==
    cookie \o h.significant_figures \o h.lowest_trackable_value
        \o h.highest_trackable_value \o h.total_count \o Flatten(h.counts)

\* a cookie with its last byte changed
Corrupt(cookie) == [cookie EXCEPT ![4] = (cookie[4] + 1) % 256]

\* the used part of compressed_histogram with another length field
Relength(field) ==
    SubSeq(compressed_histogram, 1, 4) \o field
        \o SubSeq(compressed_histogram, 9, 8 + strm.total_out)

Damages == {"none", "outer_cookie", "inner_cookie", "short", "populated",
            "long_length", "negative_length", "cut"}

RoundTripDecode ==
    /\ enc_pc = "done"
    /\ enc_result = 0
    /\ dec_pc = "idle"
    /\ \/ \E d \in Damages :
            DecCall("roundtrip",
                CASE d = "outer_cookie" ->
                       Corrupt(SubSeq(compressed_histogram, 1, 4))
                           \o Drop(compressed_histogram, 4)
                  [] d = "inner_cookie" ->
                       Envelope(ZCompress(Payload(h_in, Corrupt(ENCODING_COOKIE))))
                  [] d = "short" -> Take(compressed_histogram, 4)
                  [] d = "long_length" ->
                       Relength(Digits(strm.total_out + MaxBeyond, 4))
                  [] d = "negative_length" -> Relength(<<255, 255, 255, 255>>)
                  [] d = "cut" ->
                       Take(Relength(Digits(strm.total_out, 4)),
                            SizeofCompressionFlyweight + strm.total_out - 1)
                  [] OTHER -> compressed_histogram,
                IF d = "short" THEN 4
                ELSE IF d = "inner_cookie"
                THEN Len(Envelope(ZCompress(Payload(h_in, Corrupt(ENCODING_COOKIE)))))
                ELSE IF d \in {"long_length", "negative_length"}
                THEN SizeofCompressionFlyweight + strm.total_out
                ELSE IF d = "cut"
                THEN SizeofCompressionFlyweight + strm.total_out - 1
                ELSE ToSizeT(compressed_len),
                IF d = "populated" THEN [set |-> TRUE, hist |-> NullHistogram]
                ELSE NullSlot)
       \/ \E k \in 0..MaxTrunc :
            /\ k < strm.total_out
            /\ DecCall("roundtrip",
                  Envelope(SubSeq(compressed_histogram, 9, 8 + k)),
                  SizeofCompressionFlyweight + k, NullSlot)
    /\ UNCHANGED <<b64vars, encvars, logvars>>


(***************************************************************************)
(* The log parser (hdr_histogram_log.c:96-134, 580-726).  A line is the    *)
(* sequence of its characters with the line terminator; a format is the    *)
(* sequence of its characters with %d written -1 and %s written -2.        *)
(***************************************************************************)
isspace(c) == c \in {32, 9, 10, 11, 12, 13}
isdigit(c) == 48 <= c /\ c <= 57

\* the number of leading characters of s that satisfy white space
LeadingSpaces(s) ==
    LET other == {i \in 1..Len(s) : ~isspace(s[i])}
    IN  IF other = {} THEN Len(s)
        ELSE (CHOOSE i \in other : \A j \in other : i <= j) - 1

\* the number of leading characters of s that are not white space
LeadingToken(s) ==
    LET sp == {i \in 1..Len(s) : isspace(s[i])}
    IN  IF sp = {} THEN Len(s)
        ELSE (CHOOSE i \in sp : \A j \in sp : i <= j) - 1

\* the number of leading decimal digits of s
LeadingDigits(s) ==
    LET other == {i \in 1..Len(s) : ~isdigit(s[i])}
    IN  IF other = {} THEN Len(s)
        ELSE (CHOOSE i \in other : \A j \in other : i <= j) - 1

RECURSIVE DecimalValue(_)
\* the number written by a sequence of decimal digits
DecimalValue(ds) ==
    IF ds = <<>> THEN 0
    ELSE DecimalValue(SubSeq(ds, 1, Len(ds) - 1)) * 10 + (ds[Len(ds)] - 48)

\* the %d conversion: white space, an optional sign, decimal digits
ScanInt(s) ==
    LET t == Drop(s, LeadingSpaces(s))
        signed == t # <<>> /\ t[1] \in {43, 45}
        u == IF signed THEN Tail(t) ELSE t
        n == LeadingDigits(u)
    IN  [ok |-> n > 0,
         value |-> (IF signed /\ t[1] = 45 THEN -1 ELSE 1) * DecimalValue(Take(u, n)),
         rest |-> Drop(u, n)]

RECURSIVE sscanf(_, _, _)
\* sscanf(s, format, ...): the converted values in order (their number is
\* the return value, as long as one conversion was made)
sscanf(s, format, values) ==
    IF format = <<>> THEN values
    ELSE
      LET f == Head(format)
      IN  IF f = -1
          THEN LET r == ScanInt(s)
               IN  IF r.ok THEN sscanf(r.rest, Tail(format), Append(values, r.value))
                   ELSE values
          ELSE IF f = -2
          THEN LET t == Drop(s, LeadingSpaces(s))
                   n == LeadingToken(t)
               IN  IF n > 0 THEN sscanf(Drop(t, n), Tail(format), Append(values, Take(t, n)))
                   ELSE values
          ELSE IF isspace(f)
          THEN sscanf(Drop(s, LeadingSpaces(s)), Tail(format), values)
          ELSE IF s # <<>> /\ Head(s) = f
          THEN sscanf(Tail(s), Tail(format), values)
          ELSE values

\* null_trailing_whitespace: the string with trailing white space removed
null_trailing_whitespace(s) ==
    LET keep == {i \in 1..Len(s) : ~isspace(s[i])}
    IN  IF keep = {} THEN <<>>
        ELSE SubSeq(s, 1, CHOOSE i \in keep : \A j \in keep : j <= i)

\* starts_with(s, c): the first character that is not white space is c; true
\* of a string of white space only
starts_with(s, c) ==
    LET t == Drop(s, LeadingSpaces(s))
    IN  IF t = <<>> THEN TRUE ELSE Head(t) = c

\* is_comment: starts_with(s, '#')
is_comment(s) == starts_with(s, 35)

\* "#[Histogram log format version %d.%d]"
FormatLogVersion ==
    <<35, 91, 72, 105, 115, 116, 111, 103, 114, 97, 109, 32, 108, 111, 103,
      32, 102, 111, 114, 109, 97, 116, 32, 118, 101, 114, 115, 105, 111,
      110, 32, -1, 46, -1, 93>>

\* "#[StartTime: %d.%d [^\n]"
FormatStartTime ==
    <<35, 91, 83, 116, 97, 114, 116, 84, 105, 109, 101, 58, 32, -1, 46, -1,
      32, 91, 94, 10, 93>>

\* "%d.%d,%d.%d,%d.%d,%s"
FormatRecord ==
    <<-1, 46, -1, 44, -1, 46, -1, 44, -1, 46, -1, 44, -2>>

\* sample lines of a log
\* "#[Histogram log format version 1.2]\n"
LineVersion ==
    <<35, 91, 72, 105, 115, 116, 111, 103, 114, 97, 109, 32, 108, 111, 103,
      32, 102, 111, 114, 109, 97, 116, 32, 118, 101, 114, 115, 105, 111,
      110, 32, 49, 46, 50, 93, 10>>
\* "#[StartTime: 1441812279.139000 (seconds since epoch)]\n"
LineStartTime ==
    <<35, 91, 83, 116, 97, 114, 116, 84, 105, 109, 101, 58, 32, 49, 52, 52,
      49, 56, 49, 50, 50, 55, 57, 46, 49, 51, 57, 48, 48, 48, 32, 40, 115,
      101, 99, 111, 110, 100, 115, 32, 115, 105, 110, 99, 101, 32, 101,
      112, 111, 99, 104, 41, 93, 10>>
\* "#[StartTime: 12.345 (seconds since epoch)]\n"
LineStartTimeShort ==
    <<35, 91, 83, 116, 97, 114, 116, 84, 105, 109, 101, 58, 32, 49, 50, 46,
      51, 52, 53, 32, 40, 115, 101, 99, 111, 110, 100, 115, 32, 115, 105,
      110, 99, 101, 32, 101, 112, 111, 99, 104, 41, 93, 10>>
\* "#[Logged with jHiccup]\n"
LineComment ==
    <<35, 91, 76, 111, 103, 103, 101, 100, 32, 119, 105, 116, 104, 32, 106,
      72, 105, 99, 99, 117, 112, 93, 10>>
\* "\"StartTimestamp\",\"EndTimestamp\"\n", the row of column titles
LineColumns ==
    <<34, 83, 116, 97, 114, 116, 84, 105, 109, 101, 115, 116, 97, 109, 112,
      34, 44, 34, 69, 110, 100, 84, 105, 109, 101, 115, 116, 97, 109, 112,
      34, 10>>
\* "0.127,1.007,2.769,", the timing fields of a record
RecordPrefix ==
    <<48, 46, 49, 50, 55, 44, 49, 46, 48, 48, 55, 44, 50, 46, 55, 54, 57,
      44>>
\* "0.127,1.007\n", a record line cut short
LineShortRecord ==
    <<48, 46, 49, 50, 55, 44, 49, 46, 48, 48, 55, 10>>


\* most comment lines and most record lines of a sample log
MaxHeaderLines == 2
MaxRecords == 2

\* an int64_t that sscanf filled through %d, which writes an int: the value
\* is the one scanned where the int lands on the low-order half of a zeroed
\* object (little-endian host, value not negative); otherwise the model does
\* not follow it
ScannedInt64(v, le) == [defined |-> le /\ v >= 0, value |-> v]

\* an int64_t number of milliseconds, kept as thousands * 1000 + units so
\* that it stays exact
Millis(thousands, units) ==
    [defined |-> TRUE, thousands |-> thousands, units |-> units]
UnknownMillis == [defined |-> FALSE, thousands |-> 0, units |-> 0]

\* line 600: (timestamp_s * 1000) + trailing_ms
StartTimeOf(timestamp_s, trailing_ms) ==
    IF timestamp_s.defined /\ trailing_ms.defined
    THEN Millis(timestamp_s.value + (trailing_ms.value \div 1000),
                trailing_ms.value % 1000)
    ELSE UnknownMillis

\* scan_log_format: the fields that were converted are stored
scan_log_format(line, hd) ==
    LET v == sscanf(line, FormatLogVersion, <<>>)
    IN  [hd EXCEPT !.major_version = IF Len(v) >= 1 THEN v[1] ELSE @,
                   !.minor_version = IF Len(v) >= 2 THEN v[2] ELSE @]

\* scan_start_time: stored only when both numbers were converted
scan_start_time(line, hd, le) ==
    LET v == sscanf(line, FormatStartTime, <<>>)
    IN  IF Len(v) = 2
        THEN [hd EXCEPT !.start_time_ms =
                 StartTimeOf(ScannedInt64(v[1], le), ScannedInt64(v[2], le))]
        ELSE hd

\* the snapshot carried by the well-formed sample record
SampleSnapshot == Snapshot(3, <<1, 0, 258>>)

\* the Base64 text of a byte sequence
Base64Text(bytes) == base64_encode(bytes, base64_encoded_len(Len(bytes))).output

SampleToken == Base64Text(Envelope(ZCompress(Payload(SampleSnapshot, ENCODING_COOKIE))))

\* the sample record lines: well formed; with too few fields; with a token
\* whose length is no multiple of 4; with a symbol outside the alphabet;
\* with an envelope whose cookie is wrong
LineRecord == RecordPrefix \o SampleToken \o <<10>>
LineBadLength == RecordPrefix \o Take(SampleToken, Len(SampleToken) - 1) \o <<10>>
LineBadSymbol == RecordPrefix \o <<33>> \o Tail(SampleToken) \o <<10>>
LineBadCookie ==
    RecordPrefix
        \o Base64Text(Corrupt(COMPRESSION_COOKIE)
                          \o Drop(Envelope(ZCompress(Payload(SampleSnapshot,
                                                            ENCODING_COOKIE))), 4))
        \o <<10>>

HeaderLineSample == {LineVersion, LineStartTime, LineStartTimeShort, LineComment}
RecordLineSample ==
    {LineRecord, LineShortRecord, LineBadLength, LineBadSymbol, LineBadCookie}

\* the sample logs: comment lines, the row of column titles, record lines
LogFiles ==
    {hd \o <<LineColumns>> \o rs :
        hd \in SeqsUpTo(HeaderLineSample, MaxHeaderLines),
        rs \in SeqsUpTo(RecordLineSample, MaxRecords)}
      \cup SeqsUpTo(HeaderLineSample, MaxHeaderLines)

LogIdle ==
    /\ log_pc = "idle"
    /\ log_file = <<>>
    /\ log_pos = 0
    /\ header = [major_version |-> 0, minor_version |-> 0,
                 start_time_ms |-> Millis(0, 0)]
    /\ parse_lines_result = 0
    /\ hdr_parse_log_result = 0
    /\ printed = <<>>
    /\ log_first_error = 0
    /\ log_after_failure = 0

\* hdr_parse_log has been called and parse_log_comments has zeroed the header
LogInit ==
    /\ log_pc = "comments"
    /\ log_file \in LogFiles
    /\ log_pos = 0
    /\ header = [major_version |-> 0, minor_version |-> 0,
                 start_time_ms |-> Millis(0, 0)]
    /\ parse_lines_result = 0
    /\ hdr_parse_log_result = 0
    /\ printed = <<>>
    /\ log_first_error = 0
    /\ log_after_failure = 0

\* fgets / getline: whether a line is left, and that line
AtEof == log_pos >= Len(log_file)
NextLine == log_file[log_pos + 1]

\* lines 612-626: one turn of the loop of parse_log_comments; the line that
\* ends the loop has been read and is dropped
LogCommentLine ==
    /\ log_pc = "comments"
    /\ IF ~AtEof /\ is_comment(NextLine)
       THEN /\ header' = scan_start_time(NextLine,
                                         scan_log_format(NextLine, header),
                                         hostLE)
            /\ log_pos' = log_pos + 1
            /\ UNCHANGED log_pc
       ELSE /\ log_pos' = IF AtEof THEN log_pos ELSE log_pos + 1
            /\ log_pc' = "lines"
            /\ UNCHANGED header
    /\ UNCHANGED <<log_file, parse_lines_result, hdr_parse_log_result, printed,
                   log_first_error, log_after_failure>>
    /\ UNCHANGED <<b64vars, encvars, decvars>>

\* lines 723-725: the value of parse_lines is dropped, 0 is returned
ParseLogReturn(result) == 0

\* parse_lines is left with result, and hdr_parse_log returns
ParseLinesReturn(result) ==
    /\ parse_lines_result' = result
    /\ hdr_parse_log_result' = ParseLogReturn(result)
    /\ log_pc' = "done"

\* lines 638-692: one record line up to the call of hdr_decode_compressed
ParseLine ==
    /\ log_pc = "lines"
    /\ IF AtEof
       THEN \* getline returns -1
            /\ ParseLinesReturn(0)
            /\ UNCHANGED <<log_pos, log_first_error, log_after_failure, decvars>>
       ELSE
         LET line == NextLine
             read == Len(line)
             v == sscanf(line, FormatRecord, <<>>)
             base64_histogram ==
                 IF Len(v) = 7 THEN null_trailing_whitespace(v[7]) ELSE <<>>
             decoded_len == base64_decoded_len(Len(base64_histogram))
             d == base64_decode(base64_histogram, decoded_len)
         IN  /\ log_pos' = log_pos + 1
             /\ log_after_failure' =
                   log_after_failure + (IF log_first_error # 0 THEN 1 ELSE 0)
             /\ \E allocOk \in BOOLEAN :
                  IF ~allocOk
                  THEN /\ ParseLinesReturn(ENOMEM)
                       /\ UNCHANGED <<log_first_error, decvars>>
                  ELSE IF Len(v) # 7
                  THEN /\ ParseLinesReturn(EINVAL)
                       /\ log_first_error' =
                             IF log_first_error = 0 THEN EINVAL ELSE log_first_error
                       /\ UNCHANGED decvars
                  ELSE IF d.result # 0
                  THEN /\ ParseLinesReturn(d.result)
                       /\ log_first_error' =
                             IF log_first_error = 0 THEN d.result ELSE log_first_error
                       /\ UNCHANGED decvars
                  ELSE /\ DecCall("parse_lines",
                                  Overlay(d.output, Fill(read, 0)),
                                  decoded_len, NullSlot)
                       /\ log_pc' = "decoding"
                       /\ UNCHANGED <<parse_lines_result, hdr_parse_log_result,
                                      log_first_error>>
    /\ UNCHANGED <<log_file, header, printed>>
    /\ UNCHANGED <<b64vars, encvars>>

\* lines 692-697: hdr_decode_compressed has returned; the histogram is
\* printed if it returned 0, and the loop goes on either way
ParseLineDecoded ==
    /\ log_pc = "decoding"
    /\ dec_pc = "done"
    /\ dec_caller = "parse_lines"
    /\ printed' = IF dec_result = 0 THEN Append(printed, dec_slot.hist) ELSE printed
    /\ log_first_error' =
          IF log_first_error = 0 THEN dec_result ELSE log_first_error
    /\ log_pc' = "lines"
    /\ dec_pc' = "idle"
    /\ UNCHANGED <<log_file, log_pos, header, parse_lines_result,
                   hdr_parse_log_result, log_after_failure>>
    /\ UNCHANGED <<dec_caller, dec_buffer, dec_length, dec_slot, dec_slot_before,
                   dec_h, dec_result, dec_strm, dec_fw, dec_header_bytes,
                   dec_counts_array, dec_counts_index, dec_r, dec_events,
                   dec_avail_in>>
    /\ UNCHANGED <<b64vars, encvars>>

(***************************************************************************)
(* Specifications.                                                         *)
(***************************************************************************)
\* the encoder on a sample snapshot, then the decoder on its output
Init ==
    /\ hostLE \in BOOLEAN
    /\ EncInit
    /\ DecIdle
    /\ B64Idle
    /\ LogIdle

Next ==
    \/ EncBegin
    \/ EncGrow
    \/ EncChunk
    \/ EncFinish
    \/ RoundTripDecode
    \/ DecBegin
    \/ DecInflateInit
    \/ DecHeader
    \/ DecConstruct
    \/ DecChunk
    \/ DecCleanup

Spec == Init /\ [][Next]_vars

\* the Base64 codec on sample bytes and sample texts
Base64Init ==
    /\ hostLE = TRUE
    /\ B64Init
    /\ EncIdle
    /\ DecIdle
    /\ LogIdle

Base64Next == B64Encode \/ B64Decode

Base64Spec == Base64Init /\ [][Base64Next]_vars

\* hdr_parse_log on a sample log
ParseInit ==
    /\ hostLE \in BOOLEAN
    /\ LogInit
    /\ EncIdle
    /\ DecIdle
    /\ B64Idle

ParseNext ==
    \/ LogCommentLine
    \/ ParseLine
    \/ ParseLineDecoded
    \/ DecBegin
    \/ DecInflateInit
    \/ DecHeader
    \/ DecConstruct
    \/ DecChunk
    \/ DecCleanup

ParseSpec == ParseInit /\ [][ParseNext]_vars

(***************************************************************************)
(* Properties.                                                             *)
(***************************************************************************)
\* whether hdr_decode_compressed has made the call e so far
Happened(e) == \E i \in 1..Len(dec_events) : dec_events[i] = e

\* the decoder was called on exactly what the encoder returned, with an
\* empty slot
Undamaged ==
    /\ dec_caller = "roundtrip"
    /\ dec_buffer = compressed_histogram
    /\ dec_length = ToSizeT(compressed_len)
    /\ ~dec_slot_before.set

\* C1: every snapshot is encoded successfully (unless memory or the
\* compressor cannot be obtained), and decoding the encoder's output gives a
\* histogram with the same significant_figures, lowest and highest
\* trackable value, total_count and counts (unless memory or the
\* decompressor cannot be obtained).
C1_RoundTrip ==
    /\ enc_pc = "done" => enc_result \in {0, ENOMEM, HDR_DEFLATE_INIT_FAIL}
    /\ (dec_pc = "done" /\ Undamaged) =>
          IF dec_result = 0
          THEN dec_slot.set /\ dec_slot.hist = h_in
          ELSE \/ dec_result = ENOMEM
               \/ dec_result = HDR_INFLATE_FAIL /\ ~Happened("inflate")

\* C2: after a successful encode the envelope's length field holds, big
\* endian, the number of bytes the compressor produced, and *compressed_len
\* is 8 plus that number on either byte order, within the returned buffer.
C2_UsedLength ==
    (enc_pc = "done" /\ enc_result = 0) =>
        /\ SubSeq(compressed_histogram, 5, 8) = Digits(strm.total_out, 4)
        /\ compressed_len = SizeofCompressionFlyweight + strm.total_out
        /\ compressed_len <= Len(compressed_histogram)

\* C3: once a record line has failed no further line is read, and
\* hdr_parse_log returns the error of that record.
C3_RecordFailureIsFatal ==
    /\ log_first_error # 0 => log_after_failure = 0
    /\ (log_pc = "done" /\ log_first_error # 0) =>
          hdr_parse_log_result = log_first_error

\* the arguments pass the checks of the decoder and the envelope does not
\* start with the compression cookie
OuterCookieBad ==
    /\ dec_length >= SizeofCompressionFlyweight
    /\ ~dec_slot_before.set
    /\ SubSeq(dec_buffer, 1, 4) # COMPRESSION_COOKIE

\* the envelope starts with the compression cookie and its data decompress
\* to a whole header that does not start with the encoding cookie
InnerCookieBad ==
    /\ dec_length >= SizeofCompressionFlyweight
    /\ ~dec_slot_before.set
    /\ SubSeq(dec_buffer, 1, 4) = COMPRESSION_COOKIE
    /\ LET data == Take(Drop(dec_buffer, SizeofCompressionFlyweight),
                        ToSizeT(SignedValue32(SubSeq(dec_buffer, 5, 8))))
           i == Inflate([NewInflateStream EXCEPT !.next_in = data],
                        SizeofEncodingFlyweight)
       IN  /\ i.ret = "Z_OK"
           /\ Len(i.out) = SizeofEncodingFlyweight
           /\ Take(i.out, 4) # ENCODING_COOKIE

\* C4: a wrong outer cookie gives HDR_COMPRESSION_COOKIE_MISMATCH and
\* inflateInit is never called; once the decompressor runs, a wrong cookie
\* in the decompressed header gives HDR_ENCODING_COOKIE_MISMATCH, and that
\* result comes after the first inflate and before any hdr_init.
C4_CookieValidation ==
    /\ (dec_pc # "idle" /\ OuterCookieBad) =>
          /\ ~Happened("inflateInit")
          /\ dec_pc = "done" => dec_result = HDR_COMPRESSION_COOKIE_MISMATCH
    /\ (dec_pc = "done" /\ Happened("inflate") /\ InnerCookieBad) =>
          dec_result = HDR_ENCODING_COOKIE_MISMATCH
    /\ dec_result = HDR_ENCODING_COOKIE_MISMATCH =>
          Happened("inflate") /\ ~Happened("hdr_init")

\* a decode of a payload with a wrong inner cookie has ended
C4_InnerMismatchSeen ==
    /\ dec_pc = "done"
    /\ InnerCookieBad
    /\ dec_result = HDR_ENCODING_COOKIE_MISMATCH
    /\ SubSeq(dec_events, 1, 3) = <<"inflateInit", "inflate", "inflateEnd">>

\* C5: hdr_init is called only when the first inflate has produced all 32
\* bytes of the header; when it has produced fewer, the decode fails, and
\* not with a result obtained by reading the header's cookie.
C5_HeaderNeverPartiallyTrusted ==
    /\ Happened("hdr_init") => dec_header_bytes = SizeofEncodingFlyweight
    /\ (dec_pc = "done" /\ Happened("inflate")
            /\ dec_header_bytes < SizeofEncodingFlyweight) =>
          /\ dec_result # 0
          /\ dec_result # HDR_ENCODING_COOKIE_MISMATCH

\* the number of comment lines a log starts with
CommentLines(file) ==
    LET other == {i \in 1..Len(file) : ~is_comment(file[i])}
    IN  IF other = {} THEN Len(file)
        ELSE (CHOOSE i \in other : \A j \in other : i <= j) - 1

\* the time a start-time line states: its seconds, and the first three
\* digits of its fraction as milliseconds
StatedStartTime(line) ==
    LET t == Drop(line, Len("#[StartTime: "))
        n == LeadingDigits(t)
        fraction == Drop(t, n + 1)
        digits == Take(fraction, LeadingDigits(fraction)) \o <<48, 48, 48>>
    IN  Millis(DecimalValue(Take(t, n)), DecimalValue(Take(digits, 3)))

\* C6: after the header phase start_time_ms is seconds * 1000 + millis of
\* the last start-time line, and the version is the one of the version
\* line; "1441812279.139000" gives 1441812279139.
C6_StartTime ==
    log_pc \in {"lines", "decoding", "done"} =>
        LET hd == 1..CommentLines(log_file)
            starts == {i \in hd : log_file[i] \in {LineStartTime, LineStartTimeShort}}
            versions == {i \in hd : log_file[i] = LineVersion}
            last == CHOOSE i \in starts : \A j \in starts : j <= i
        IN  /\ StatedStartTime(LineStartTime) = Millis(1441812279, 139)
            /\ starts # {} =>
                  header.start_time_ms = StatedStartTime(log_file[last])
            /\ versions # {} =>
                  header.major_version = 1 /\ header.minor_version = 2

\* C7: base64_decode returns EINVAL for a text of valid length that holds a
\* symbol which is neither in the alphabet nor '='.
C7_DecodeRejectsForeignSymbol ==
    (/\ b64_pc = "decoded"
     /\ Len(b64_text) >= 4
     /\ Len(b64_text) % 4 = 0
     /\ \E i \in 1..Len(b64_text) : b64_text[i] \notin Base64Alphabet \cup {61})
        => b64_dec_result = EINVAL

\* C8 as stated: decoding the encoded text succeeds and returns exactly the
\* bytes that were encoded, whatever their number.
C8_RoundTripExact ==
    b64_pc = "roundtrip" =>
        /\ b64_enc_result = 0
        /\ b64_dec_result = 0
        /\ b64_output = b64_input

\* C8: for one byte or more, decoding the encoded text succeeds and returns
\* the bytes that were encoded followed by zero bytes up to the next
\* multiple of 3; for no bytes the encoded text is empty and decoding it
\* returns EINVAL.
C8_RoundTripPadded ==
    b64_pc = "roundtrip" =>
        LET n == Len(b64_input)
        IN  /\ b64_enc_result = 0
            /\ Len(b64_text) = 4 * ((n + 2) \div 3)
            /\ IF n = 0
               THEN b64_dec_result = EINVAL
               ELSE /\ b64_dec_result = 0
                    /\ Len(b64_output) = 3 * ((n + 2) \div 3)
                    /\ Take(b64_output, n) = b64_input
                    /\ \A i \in (n + 1)..Len(b64_output) : b64_output[i] = 0

\* two bytes holding values above 127 have been encoded and decoded
C8_RoundTripSeen ==
    /\ b64_pc = "roundtrip"
    /\ b64_input = <<255, 110>>
    /\ b64_dec_result = 0
    /\ Len(b64_output) = 3

\* C9: when the decoder fails the caller's slot is as it was, inflateEnd has
\* been called, and free is applied to the histogram this call constructed
\* and to nothing else.
C9_FailurePaths ==
    (dec_pc = "done" /\ dec_result # 0) =>
        /\ dec_slot = dec_slot_before
        /\ Happened("inflateEnd")
        /\ dec_strm.mode = "NONE"
        /\ Happened("free_constructed") <=> dec_h.state = "constructed"
        /\ ~Happened("free_indeterminate")

\* C10: in the streaming loop next_out + avail_out is the capacity of the
\* buffer, the capacity is the initial one doubled once per growth, and an
\* encode that had to grow the buffer succeeds (unless memory runs out).
C10_BufferGrowth ==
    /\ enc_pc \in {"loop", "finish"} =>
          /\ strm.next_out + strm.avail_out = len
          /\ Len(buf) = len
          /\ len = InitialLen * 2 ^ enc_grown
    /\ (enc_pc = "done" /\ enc_grown > 0) => enc_result \in {0, ENOMEM}

\* C11: the input hdr_decode_compressed makes available to inflate is never
\* negative and never more than the length - 8 bytes the caller supplied
\* after the envelope header, whatever the envelope's length field holds.
C11_InputWithinBuffer ==
    Happened("inflate") =>
        /\ dec_avail_in >= 0
        /\ dec_avail_in <= dec_length - SizeofCompressionFlyweight

====
